---- MODULE Spec2Model ----
(***************************************************************************)
(* The Asset Integrity GenAI Assistant (asset_integrity_genai_app.py) as a *)
(* state machine: one top-to-bottom run of the script.  generate_assets    *)
(* builds the asset table row by row, then the nine tab blocks run in      *)
(* source order.  The module-level names of the script (assets_df, prompt, *)
(* sample, advisory, ...) are the variables; what the script writes to the *)
(* page (st.info, st.warning, ...) is kept per panel in shown.             *)
(*                                                                         *)
(* Text is a sequence of one-character strings, so that strip(), the       *)
(* zero-padded Asset ID and the "in" test of the work-order panel are      *)
(* computed, not assumed.  Floats rounded to k decimals are kept as the    *)
(* integer value * 10^k.                                                   *)
(***************************************************************************)
EXTENDS Integers, Sequences, FiniteSets, TLC

VARIABLES
    seed,            \* which output stream the `random` module produces in this run
    rng,             \* number of values drawn from `random` so far
    pc,              \* position of the script
    eq_idx,          \* generate_assets: index of the current equipment_types item
    in_type,         \* generate_assets: inner-loop iterations done for that item
    id_counter,      \* generate_assets: id_counter
    assets,          \* generate_assets: the list `assets`
    assets_df,       \* module level: assets_df
    styled_df,       \* tabs[1]: the styles color_row gave each row
    low_rul_df,      \* tabs[2]: low_rul_df
    styled_lifespan, \* tabs[2]: the styles highlight_lifespan gave each row
    sample,          \* module level: sample
    prompt,          \* module level: prompt
    advisory,        \* module level: advisory
    loop_rows,       \* tabs[3]/tabs[4]: corroding / risky, the frame being iterated
    loop_i,          \* tabs[3]/tabs[4]: rows of the frame already handled
    low_rul,         \* tabs[7]: low_rul
    total,           \* tabs[7]: total
    critical_assets, \* tabs[8]: critical_assets
    last_call,       \* the latest request sent through genai_advisory
    called,          \* the panels that have called genai_advisory
    shown,           \* per panel, <<the message it rendered last>>
    bound,           \* the module-level names that are bound so far
    cost_arg,        \* get_equipment_cost called on its own: its argument
    cost_ret         \* get_equipment_cost called on its own: what it returned

vars == <<seed, rng, pc, eq_idx, in_type, id_counter, assets, assets_df, styled_df,
          low_rul_df, styled_lifespan, sample, prompt, advisory, loop_rows, loop_i,
          low_rul, total, critical_assets, last_call, called, shown, bound,
          cost_arg, cost_ret>>

(***************************************************************************)
(* Bounds of the model.                                                    *)
(***************************************************************************)
\* Streams of the random source that are explored: seeds 0..MaxSeed.
MaxSeed == 6
\* Number of distinct raw levels a draw of the random source can take.
RawLevels == 64
\* Positions of a filtered frame that DataFrame.sample(1) is let to pick:
\* the first MaxPicks rows and the last one.
MaxPicks == 1

\* What a variable of the model holds while the script's name is not bound;
\* whether a name is bound is decided by `bound`, never by this value.
NoValue == <<>>

(***************************************************************************)
(* The `random` module.  Its output stream is an input of the program: a   *)
(* run draws the values Raw(seed, 0), Raw(seed, 1), ... in order.  The     *)
(* explored family holds constant streams (every draw at the same level,   *)
(* so every asset alike: all critical, all nearing end of life, all safe)  *)
(* and arithmetic progressions (which run through every level).            *)
(***************************************************************************)
Seeds == 0..MaxSeed

Raw(s, n) == (8 * (s \div 3) + (s % 3) * n) % RawLevels

\* random.randint(a, b): an integer of [a, b], both ends included.
randint(a, b, u) == a + (u * (b - a)) \div (RawLevels - 1)

\* round(random.uniform(a, b), k) as the integer value * 10^k; a and b are
\* given already scaled by 10^k.
uniform_rounded(a, b, u) == a + (u * (b - a)) \div (RawLevels - 1)

\* random.choice(seq)
choice(seq, u) == seq[1 + (u * (Len(seq) - 1)) \div (RawLevels - 1)]

(***************************************************************************)
(* Text helpers.                                                           *)
(***************************************************************************)
DigitChar == <<"0", "1", "2", "3", "4", "5", "6", "7", "8", "9">>

RECURSIVE Digits(_)
\* str(n) for an integer n >= 0
Digits(n) == IF n < 10 THEN <<DigitChar[n + 1]>>
             ELSE Digits(n \div 10) \o <<DigitChar[(n % 10) + 1]>>

RECURSIVE ZeroPad(_, _)
\* the d format with a 0 flag and a minimum width: pad on the left, never cut
ZeroPad(cs, width) == IF Len(cs) >= width THEN cs ELSE ZeroPad(<<"0">> \o cs, width)

(***************************************************************************)
(* generate_assets                                                         *)
(***************************************************************************)
\* the dict literal, in insertion order (the order .items() yields)
equipment_types == <<
    <<"Pump", 30>>,
    <<"Compressor", 10>>,
    <<"Turbine", 5>>,
    <<"Heat Exchanger", 10>>,
    <<"Tank", 10>>,
    <<"Vessel", 5>>,
    <<"Pipeline", 15>>,
    <<"Motor", 10>>,
    <<"Control Panel", 5>>,
    <<"Sensor", 40>> >>

Columns == {"Asset ID", "Type", "Location", "Age (years)", "Last Maintenance",
            "Degradation %", "Status", "Vibration", "Temperature",
            "Corrosion Level", "RUL (months)"}

\* Variant: the ID without the zero padding, f"A{id_counter}".
AssetIdNoPad(n) == <<"A">> \o Digits(n)

\* f"A{id_counter:04d}"
AssetId(n) == <<"A">> \o ZeroPad(Digits(n), 4)

\* f"Zone {random.choice(['A','B','C','D'])}"
Zone(u) == "Zone " \o choice(<<"A", "B", "C", "D">>, u)

\* One dict of the list, its values drawn in the order the dict literal
\* evaluates them: draws r, r+1, ..., r+8 of the stream s.  "Last
\* Maintenance" is the date as a day offset from today (today = 0).
NewAsset(n, eq_type, s, r) ==
    [c \in Columns |->
        CASE c = "Asset ID"         -> AssetId(n)
          [] c = "Type"             -> eq_type
          [] c = "Location"         -> Zone(Raw(s, r))
          [] c = "Age (years)"      -> randint(1, 20, Raw(s, r + 1))
          [] c = "Last Maintenance" -> 0 - randint(30, 900, Raw(s, r + 2))
          [] c = "Degradation %"    -> uniform_rounded(1000, 9000, Raw(s, r + 3))
          [] c = "Status"           -> choice(<<"Operational", "Under Maintenance",
                                                "Standby">>, Raw(s, r + 4))
          [] c = "Vibration"        -> uniform_rounded(10, 500, Raw(s, r + 5))
          [] c = "Temperature"      -> uniform_rounded(300, 1200, Raw(s, r + 6))
          [] c = "Corrosion Level"  -> uniform_rounded(0, 100, Raw(s, r + 7))
          [] c = "RUL (months)"     -> randint(1, 36, Raw(s, r + 8))]

DrawsPerAsset == 9

\* id_counter += 1
NextId(n) == n + 1

(***************************************************************************)
(* genai_advisory                                                          *)
(***************************************************************************)
\* The characters str.strip() removes.
Whitespace == {" ", "\t", "\n", "\r", "\f"}

RECURSIVE lstrip(_)
lstrip(t) == IF t # <<>> /\ Head(t) \in Whitespace THEN lstrip(Tail(t)) ELSE t

RECURSIVE rstrip(_)
rstrip(t) == IF t # <<>> /\ t[Len(t)] \in Whitespace
                THEN rstrip(SubSeq(t, 1, Len(t) - 1)) ELSE t

\* Variant: only the leading whitespace removed (lstrip for strip).
strip_left_only(t) == lstrip(t)

\* str.strip()
strip(t) == rstrip(lstrip(t))

\* The warning sign of the source is two code points, U+26A0 U+FE0F.
WarningSign == <<"U+26A0", "U+FE0F">>

\* "<warning sign> GenAI Error: "
ErrorPrefix == WarningSign \o <<" ", "G", "e", "n", "A", "I", " ", "E", "r", "r", "o", "r", ":", " ">>

\* What one request to client.chat.completions.create comes back as:
\*   [kind |-> "ok", text |-> t]     choices[0].message.content is t
\*   [kind |-> "raise", text |-> t]  the call raises an Exception e, str(e) = t
\*   [kind |-> "no_choices"]         a response whose choices list is empty
\*   [kind |-> "none_content"]       a response whose content is None
Response(kind, text) == [kind |-> kind, text |-> text]

\* str(e) of the IndexError of choices[0] on an empty list
IndexErrorText == <<"l", "i", "s", "t", " ", "i", "n", "d", "e", "x", " ", "o", "u", "t", " ", "o", "f", " ", "r", "a", "n", "g", "e">>
\* str(e) of the AttributeError of None.strip()
AttributeErrorText == <<"'", "N", "o", "n", "e", "T", "y", "p", "e", "'", " ", "o", "b", "j", "e", "c", "t", " ", "h", "a", "s", " ", "n", "o", " ", "a", "t", "t", "r", "i", "b", "u", "t", "e", " ", "'", "s", "t", "r", "i", "p", "'">>

\* str(e) of the exception the try block ends with
ExceptionText(resp) ==
    CASE resp.kind = "raise"        -> resp.text
      [] resp.kind = "no_choices"   -> IndexErrorText
      [] resp.kind = "none_content" -> AttributeErrorText

\* genai_advisory(prompt): the text it returns when the request comes back
\* as resp.  Every way the try block can fail is an Exception and is caught.
genai_advisory(p, resp) ==
    IF resp.kind = "ok"
       THEN strip(resp.text)
       ELSE ErrorPrefix \o ExceptionText(resp)

\* sub in text
IsIn(sub, text) ==
    \E i \in 1..(Len(text) - Len(sub) + 1) : SubSeq(text, i, i + Len(sub) - 1) = sub

(***************************************************************************)
(* Rendering of a value inside an f-string                                 *)
(***************************************************************************)
\* str() of a float kept as value * 10^places (places is 1 or 2): the digits
\* after the point without trailing zeros, but at least one.
ReprFloat(v, places) ==
    LET scale == IF places = 2 THEN 100 ELSE 10
        whole == v \div scale
        frac  == v % scale
        fracDigits == IF places = 1 THEN Digits(frac)
                      ELSE IF frac % 10 = 0 THEN Digits(frac \div 10)
                      ELSE ZeroPad(Digits(frac), 2)
    IN  Digits(whole) \o <<".">> \o fracDigits

\* str(row[column]); a str value is kept as one run.
Str(row, column) ==
    CASE column = "Asset ID" -> row[column]
      [] column \in {"Type", "Location", "Status"} -> <<row[column]>>
      [] column \in {"Age (years)", "RUL (months)"} -> Digits(row[column])
      [] column \in {"Degradation %", "Vibration", "Corrosion Level"} ->
            ReprFloat(row[column], 2)
      [] column = "Temperature" -> ReprFloat(row[column], 1)

\* A prompt is the sequence of the pieces of its f-string: literal text and
\* replacement fields.
Lit(text) == [kind |-> "lit", column |-> "", text |-> <<text>>]
Fld(row, column) == [kind |-> "field", column |-> column, text |-> Str(row, column)]

\* Variant: the last field repeats Age instead of embedding RUL.
LifespanPromptNoRul(s) == <<
    Lit("Asset ID: "), Fld(s, "Asset ID"),
    Lit("\nType: "), Fld(s, "Type"),
    Lit("\nAge: "), Fld(s, "Age (years)"),
    Lit(" years\nDegradation: "), Fld(s, "Degradation %"),
    Lit("%\nVibration: "), Fld(s, "Vibration"),
    Lit("\nTemperature: "), Fld(s, "Temperature"),
    Lit(" deg C\nCorrosion Level: "), Fld(s, "Corrosion Level"),
    Lit("\nRUL: "), Fld(s, "Age (years)"),
    Lit(" months\nExplain why this asset's RUL is low and suggest next steps.") >>

\* tabs[2]: the prompt f-string
LifespanPrompt(s) == <<
    Lit("Asset ID: "), Fld(s, "Asset ID"),
    Lit("\nType: "), Fld(s, "Type"),
    Lit("\nAge: "), Fld(s, "Age (years)"),
    Lit(" years\nDegradation: "), Fld(s, "Degradation %"),
    Lit("%\nVibration: "), Fld(s, "Vibration"),
    Lit("\nTemperature: "), Fld(s, "Temperature"),
    Lit(" deg C\nCorrosion Level: "), Fld(s, "Corrosion Level"),
    Lit("\nRUL: "), Fld(s, "RUL (months)"),
    Lit(" months\nExplain why this asset's RUL is low and suggest next steps.") >>

\* tabs[5]: the prompt f-string; note is the text of the text area
FieldReportPrompt(note) == <<
    Lit("Summarize this field report into risk advisory:\n"),
    [kind |-> "field", column |-> "note", text |-> <<note>>] >>

\* tabs[6]: the prompt f-string
CompliancePrompt(s) == <<
    Lit("The asset "), Fld(s, "Asset ID"),
    Lit(" is "), Fld(s, "Age (years)"),
    Lit(" years old with degradation "), Fld(s, "Degradation %"),
    Lit("%, in location "), Fld(s, "Location"),
    Lit(". Predict possible upcoming compliance risks.") >>

\* tabs[7]: the prompt f-string
CostPrompt(t) == <<
    Lit("In the next 6 months, assets totaling $"),
    [kind |-> "field", column |-> "total", text |-> Digits(t)],
    Lit(" are due for replacement. Provide a capital planning summary.") >>

\* tabs[8]: the prompt f-string
WorkOrderPrompt(s) == <<
    Lit("Create a prioritized maintenance work order for:\nAsset: "),
    Fld(s, "Asset ID"),
    Lit("\nType: "), Fld(s, "Type"),
    Lit("\nLocation: "), Fld(s, "Location"),
    Lit("\nStatus: "), Fld(s, "Status"),
    Lit("\nRUL: "), Fld(s, "RUL (months)"),
    Lit(" months\nVibration: "), Fld(s, "Vibration"),
    Lit("\nTemperature: "), Fld(s, "Temperature"),
    Lit(" deg C\nCorrosion: "), Fld(s, "Corrosion Level"),
    Lit("\nSuggest optimal technician type and urgency.") >>

(***************************************************************************)
(* Row styling and row selection                                           *)
(***************************************************************************)
\* [style] * len(row)
Repeat(style, row) == [i \in 1..Cardinality(DOMAIN row) |-> style]

\* Variant: the first comparison strict (RUL < 3).
color_row_strict(row) ==
    IF row["RUL (months)"] < 3 THEN Repeat("background-color: red", row)
    ELSE IF row["RUL (months)"] <= 6 THEN Repeat("background-color: yellow", row)
    ELSE Repeat("background-color: lightgreen", row)

\* tabs[1]: color_row
color_row(row) ==
    IF row["RUL (months)"] <= 3 THEN Repeat("background-color: red", row)
    ELSE IF row["RUL (months)"] <= 6 THEN Repeat("background-color: yellow", row)
    ELSE Repeat("background-color: lightgreen", row)

\* tabs[2]: highlight_lifespan
highlight_lifespan(row) ==
    IF row["RUL (months)"] <= 3 THEN Repeat("background-color: red", row)
    ELSE IF row["RUL (months)"] <= 6 THEN Repeat("background-color: yellow", row)
    ELSE Repeat("", row)

\* Variant: the mask dropped, the whole frame kept.
RulAtMostAll(df, months) == df

\* df[df["RUL (months)"] <= months]: a new frame holding copies of the rows
RulAtMost(df, months) == SelectSeq(df, LAMBDA r : r["RUL (months)"] <= months)

\* How sort_values orders two rows with equal keys is left open by pandas
\* (the default sort is not stable); both extremes are explored.
TieOrders == {"first", "last"}

\* Row i comes before row j in df.sort_values(column, ascending=False).
Before(df, column, tie, i, j) ==
    \/ df[i][column] > df[j][column]
    \/ /\ df[i][column] = df[j][column]
       /\ IF tie = "first" THEN i < j ELSE i > j

\* df.sort_values(column, ascending=False).head(n)
TopRows(df, column, tie, n) ==
    LET rank == [i \in 1..Len(df) |->
                    Cardinality({j \in 1..Len(df) : Before(df, column, tie, j, i)})]
        size == IF Len(df) < n THEN Len(df) ELSE n
    IN  [k \in 1..size |-> df[CHOOSE i \in 1..Len(df) : rank[i] = k - 1]]

\* The rows DataFrame.sample(1) is let to return: positions of the frame.
Picks(df) == {i \in 1..Len(df) : i <= MaxPicks \/ i = Len(df)}

(***************************************************************************)
(* get_equipment_cost                                                      *)
(***************************************************************************)
\* the catalog dict literal: key, and the bounds of its random.randint
catalog == <<
    <<"Pump", 5000, 15000>>,
    <<"Compressor", 20000, 60000>>,
    <<"Turbine", 40000, 120000>>,
    <<"Tank", 15000, 40000>>,
    <<"Sensor", 500, 3000>>,
    <<"Pipeline", 10000, 30000>>,
    <<"Motor", 8000, 20000>>,
    <<"Control Panel", 5000, 15000>>,
    <<"Heat Exchanger", 10000, 25000>>,
    <<"Vessel", 12000, 35000>> >>

\* Variant: every known key priced with the first entry of the catalog.
get_equipment_cost_first(eq_type, s, r) ==
    IF \E i \in 1..Len(catalog) : catalog[i][1] = eq_type
       THEN randint(catalog[1][2], catalog[1][3], Raw(s, r))
       ELSE 10000

\* get_equipment_cost(eq_type): every call builds the whole dict, one draw
\* per entry (draws r .. r+9 of stream s), then catalog.get(eq_type, 10000).
get_equipment_cost(eq_type, s, r) ==
    IF \E i \in 1..Len(catalog) : catalog[i][1] = eq_type
       THEN LET i == CHOOSE k \in 1..Len(catalog) : catalog[k][1] = eq_type
            IN  randint(catalog[i][2], catalog[i][3], Raw(s, r + i - 1))
       ELSE 10000

RECURSIVE SumCosts(_, _, _)
\* Series.sum() of the "Replacement Cost ($)" column over rows lo..hi
\* (integer addition, so the order of the additions does not matter)
SumCosts(df, lo, hi) ==
    IF lo > hi THEN 0
    ELSE IF lo = hi THEN df[lo]["Replacement Cost ($)"]
    ELSE LET mid == (lo + hi) \div 2
         IN  SumCosts(df, lo, mid) + SumCosts(df, mid + 1, hi)


(***************************************************************************)
(* The environment of one run                                              *)
(***************************************************************************)
Panels == {"lifespan", "corrosion", "failure", "report", "compliance", "cost",
           "workorder"}

\* The answers the text-generation endpoint gives during a run of the script.
Responses == {
    Response("ok", <<"\n", " ", "F", "i", "x", " ", "i", "t", ".", "\t">>),
    Response("raise", <<"t", "i", "m", "e", "o", "u", "t">>) }

\* The text area of tabs[5]: its default value, or what the user typed.
DefaultNote == "Pump A003 vibrating heavily and overheating. Corrosion visible."
Notes == {DefaultNote, "Seal leak on compressor skid."}

NoCall == [panel |-> "", heading |-> <<>>, prompt |-> <<>>,
           response |-> Response("", <<>>), result |-> <<>>]

\* One request through genai_advisory, as the panel made it: the Asset ID of
\* the heading the panel wrote for it (<<>> when it wrote none), the prompt
\* passed, what the endpoint answered and what genai_advisory returned.
Call(panel, heading, p, resp) ==
    [panel |-> panel, heading |-> heading, prompt |-> p, response |-> resp,
     result |-> genai_advisory(p, resp)]

\* what st.info / st.warning / st.error / st.success put on the page
Message(kind, body) == <<[kind |-> kind, body |-> body]>>

(***************************************************************************)
(* generate_assets, the loop                                               *)
(***************************************************************************)
\* One iteration of the inner loop: assets.append({...}); id_counter += 1.
\* The for statements move on to the next item when the range is used up.
GenerateAppend ==
    /\ pc = "generate"
    /\ eq_idx <= Len(equipment_types)
    /\ assets' = Append(assets,
                        NewAsset(id_counter, equipment_types[eq_idx][1], seed, rng))
    /\ rng' = rng + DrawsPerAsset
    /\ id_counter' = NextId(id_counter)
    /\ IF in_type + 1 >= equipment_types[eq_idx][2]
          THEN eq_idx' = eq_idx + 1 /\ in_type' = 0
          ELSE eq_idx' = eq_idx /\ in_type' = in_type + 1
    /\ UNCHANGED <<seed, pc, assets_df, styled_df, low_rul_df, styled_lifespan,
                   sample, prompt, advisory, loop_rows, loop_i, low_rul, total,
                   critical_assets, last_call, called, shown, bound, cost_arg, cost_ret>>

\* return pd.DataFrame(assets); assets_df = generate_assets().  The locals of
\* the function are gone once it has returned.
GenerateReturn ==
    /\ pc = "generate"
    /\ eq_idx > Len(equipment_types)
    /\ assets_df' = assets
    /\ assets' = <<>>
    /\ eq_idx' = 1
    /\ in_type' = 0
    /\ id_counter' = 1
    /\ bound' = bound \cup {"assets_df"}
    /\ pc' = "tab0"
    /\ UNCHANGED <<seed, rng, styled_df, low_rul_df, styled_lifespan, sample,
                   prompt, advisory, loop_rows, loop_i, low_rul, total,
                   critical_assets, last_call, called, shown, cost_arg, cost_ret>>

(***************************************************************************)
(* The tab blocks, in source order                                         *)
(***************************************************************************)
\* with tabs[0]: static markdown only
Tab0 ==
    /\ pc = "tab0"
    /\ pc' = "tab1"
    /\ UNCHANGED <<seed, rng, eq_idx, in_type, id_counter, assets, assets_df,
                   styled_df, low_rul_df, styled_lifespan, sample, prompt, advisory,
                   loop_rows, loop_i, low_rul, total, critical_assets, last_call,
                   called, shown, bound, cost_arg, cost_ret>>

\* with tabs[1]: the full register, every row styled by color_row
Tab1 ==
    /\ pc = "tab1"
    /\ styled_df' = [i \in 1..Len(assets_df) |-> color_row(assets_df[i])]
    /\ bound' = bound \cup {"color_row", "styled_df"}
    /\ pc' = "tab2"
    /\ UNCHANGED <<seed, rng, eq_idx, in_type, id_counter, assets, assets_df,
                   low_rul_df, styled_lifespan, sample, prompt, advisory,
                   loop_rows, loop_i, low_rul, total, critical_assets, last_call,
                   called, shown, cost_arg, cost_ret>>

\* with tabs[2]: the rows with RUL <= 6, styled by highlight_lifespan, and an
\* advisory for one sampled row when there is any
Tab2 ==
    /\ pc = "tab2"
    /\ low_rul_df' = RulAtMost(assets_df, 6)
    /\ styled_lifespan' = [i \in 1..Len(low_rul_df') |->
                            highlight_lifespan(low_rul_df'[i])]
    /\ IF low_rul_df' # <<>>
          THEN \E i \in Picks(low_rul_df'), resp \in Responses :
                  /\ sample' = low_rul_df'[i]
                  /\ prompt' = LifespanPrompt(sample')
                  /\ last_call' = Call("lifespan", <<>>, prompt', resp)
                  /\ advisory' = last_call'.result
                  /\ called' = called \cup {"lifespan"}
                  /\ shown' = [shown EXCEPT !["lifespan"] = Message("info", advisory')]
                  /\ bound' = bound \cup {"low_rul_df", "highlight_lifespan",
                                          "styled_lifespan", "sample", "prompt",
                                          "advisory"}
          ELSE /\ bound' = bound \cup {"low_rul_df", "highlight_lifespan",
                                       "styled_lifespan"}
               /\ UNCHANGED <<sample, prompt, advisory, last_call, called, shown>>
    /\ pc' = "tab3"
    /\ UNCHANGED <<seed, rng, eq_idx, in_type, id_counter, assets, assets_df,
                   styled_df, loop_rows, loop_i, low_rul, total, critical_assets,
                   cost_arg, cost_ret>>

\* The first statements of tabs[3] / tabs[4]: the five rows with the largest
\* value of `column`, which the for loop then iterates.
LoopBegin(at, column, frame, loop) ==
    /\ pc = at
    /\ \E tie \in TieOrders : loop_rows' = TopRows(assets_df, column, tie, 5)
    /\ loop_i' = 0
    /\ bound' = bound \cup {frame}
    /\ pc' = loop
    /\ UNCHANGED <<seed, rng, eq_idx, in_type, id_counter, assets, assets_df,
                   styled_df, low_rul_df, styled_lifespan, sample, prompt, advisory,
                   low_rul, total, critical_assets, last_call, called, shown,
                   cost_arg, cost_ret>>

\* One iteration of the for loop of tabs[3] / tabs[4]: the heading for the
\* row, then st.warning / st.error (genai_advisory(prompt)).  The argument is
\* the module-level name prompt; the loop body never assigns it.  Evaluating
\* it while it is unbound raises NameError outside any try block, which ends
\* the run of the script.
LoopRow(loop, panel, kind, after) ==
    /\ pc = loop
    /\ loop_i < Len(loop_rows)
    /\ LET row == loop_rows[loop_i + 1] IN
       IF "prompt" \in bound
          THEN \E resp \in Responses :
                  /\ last_call' = Call(panel, row["Asset ID"], prompt, resp)
                  /\ called' = called \cup {panel}
                  /\ shown' = [shown EXCEPT ![panel] = Message(kind, last_call'.result)]
                  /\ loop_i' = loop_i + 1
                  /\ pc' = IF loop_i' = Len(loop_rows) THEN after ELSE loop
          ELSE /\ pc' = "crashed"
               /\ UNCHANGED <<last_call, called, shown, loop_i>>
    /\ bound' = bound \cup {"row"}
    /\ UNCHANGED <<seed, rng, eq_idx, in_type, id_counter, assets, assets_df,
                   styled_df, low_rul_df, styled_lifespan, sample, prompt, advisory,
                   loop_rows, low_rul, total, critical_assets, cost_arg, cost_ret>>

\* with tabs[3]: corroding = assets_df.sort_values("Corrosion Level", ...).head(5)
Tab3Begin == LoopBegin("tab3", "Corrosion Level", "corroding", "tab3_loop")

\* with tabs[3]: for _, row in corroding.iterrows()
Tab3Row == LoopRow("tab3_loop", "corrosion", "warning", "tab4")

\* with tabs[4]: risky = assets_df.sort_values("Degradation %", ...).head(5)
Tab4Begin == LoopBegin("tab4", "Degradation %", "risky", "tab4_loop")

\* with tabs[4]: for _, row in risky.iterrows()
Tab4Row == LoopRow("tab4_loop", "failure", "error", "tab5")

\* with tabs[5]: the text area and the Generate Summary button
Tab5 ==
    /\ pc = "tab5"
    /\ \E note \in Notes, pressed \in BOOLEAN :
          IF pressed
             THEN \E resp \in Responses :
                     /\ prompt' = FieldReportPrompt(note)
                     /\ last_call' = Call("report", <<>>, prompt', resp)
                     /\ called' = called \cup {"report"}
                     /\ shown' = [shown EXCEPT !["report"] =
                                     Message("success", last_call'.result)]
                     /\ bound' = bound \cup {"note", "prompt"}
             ELSE /\ bound' = bound \cup {"note"}
                  /\ UNCHANGED <<prompt, last_call, called, shown>>
    /\ pc' = "tab6"
    /\ UNCHANGED <<seed, rng, eq_idx, in_type, id_counter, assets, assets_df,
                   styled_df, low_rul_df, styled_lifespan, sample, advisory,
                   loop_rows, loop_i, low_rul, total, critical_assets, cost_arg, cost_ret>>

\* with tabs[6]: an advisory for one row sampled from the whole register
Tab6 ==
    /\ pc = "tab6"
    /\ \E i \in Picks(assets_df), resp \in Responses :
          /\ sample' = assets_df[i]
          /\ prompt' = CompliancePrompt(sample')
          /\ last_call' = Call("compliance", <<>>, prompt', resp)
          /\ called' = called \cup {"compliance"}
          /\ shown' = [shown EXCEPT !["compliance"] = Message("info", last_call'.result)]
    /\ bound' = bound \cup {"sample", "prompt"}
    /\ pc' = "tab7"
    /\ UNCHANGED <<seed, rng, eq_idx, in_type, id_counter, assets, assets_df,
                   styled_df, low_rul_df, styled_lifespan, advisory, loop_rows,
                   loop_i, low_rul, total, critical_assets, cost_arg, cost_ret>>

DrawsPerCost == 10

\* low_rul["Replacement Cost ($)"] = low_rul["Type"].apply(get_equipment_cost)
\* low_rul["Replace By"] = today + RUL * 30 days (a day offset from today)
\* The k-th call of get_equipment_cost starts at draw r + 10 * (k - 1).
WithCostColumns(low, s, r) ==
    [k \in 1..Len(low) |->
        low[k] @@ ("Replacement Cost ($)" :>
                      get_equipment_cost(low[k]["Type"], s, r + DrawsPerCost * (k - 1)))
               @@ ("Replace By" :> low[k]["RUL (months)"] * 30)]

\* Variant: low_rul a view of assets_df, so the new columns reach its rows.
AssetsAfterAssignView(df, low) ==
    [i \in 1..Len(df) |->
        IF \E k \in 1..Len(low) : low[k]["Asset ID"] = df[i]["Asset ID"]
           THEN low[CHOOSE k \in 1..Len(low) : low[k]["Asset ID"] = df[i]["Asset ID"]]
           ELSE df[i]]

\* assets_df once the two columns of low_rul have been assigned: low_rul is
\* the result of boolean indexing, which owns its data, so the assignment
\* (pandas warns SettingWithCopy) does not reach assets_df.
AssetsAfterAssign(df, low) == df

\* with tabs[7]: replacement cost of the rows with RUL <= 6 and its advisory
Tab7 ==
    /\ pc = "tab7"
    /\ LET low == RulAtMost(assets_df, 6) IN
       IF low # <<>>
          THEN /\ low_rul' = WithCostColumns(low, seed, rng)
               /\ rng' = rng + DrawsPerCost * Len(low)
               /\ assets_df' = AssetsAfterAssign(assets_df, low_rul')
               /\ total' = SumCosts(low_rul', 1, Len(low_rul'))
               /\ prompt' = CostPrompt(total')
               /\ \E resp \in Responses :
                     /\ last_call' = Call("cost", <<>>, prompt', resp)
                     /\ shown' = [shown EXCEPT !["cost"] =
                                     Message("success", last_call'.result)]
               /\ called' = called \cup {"cost"}
               /\ bound' = bound \cup {"get_equipment_cost", "low_rul", "total",
                                       "prompt"}
          ELSE /\ low_rul' = low
               /\ shown' = [shown EXCEPT !["cost"] =
                               Message("info", <<"No assets nearing end of life.">>)]
               /\ bound' = bound \cup {"get_equipment_cost", "low_rul"}
               /\ UNCHANGED <<rng, assets_df, total, prompt, last_call, called>>
    /\ pc' = "tab8"
    /\ UNCHANGED <<seed, eq_idx, in_type, id_counter, assets, styled_df, low_rul_df,
                   styled_lifespan, sample, advisory, loop_rows, loop_i,
                   critical_assets, cost_arg, cost_ret>>

\* with tabs[8]: a work order for one sampled row with RUL <= 3, when there is any
Tab8 ==
    /\ pc = "tab8"
    /\ critical_assets' = RulAtMost(assets_df, 3)
    /\ IF critical_assets' = <<>>
          THEN /\ shown' = [shown EXCEPT !["workorder"] =
                               Message("success",
                                       <<"U+2705", " ", "No urgent work orders required.">>)]
               /\ bound' = bound \cup {"critical_assets"}
               /\ UNCHANGED <<sample, prompt, advisory, last_call, called>>
          ELSE \E i \in Picks(critical_assets'), resp \in Responses :
                  /\ sample' = critical_assets'[i]
                  /\ prompt' = WorkOrderPrompt(sample')
                  /\ last_call' = Call("workorder", <<>>, prompt', resp)
                  /\ advisory' = last_call'.result
                  /\ called' = called \cup {"workorder"}
                  /\ shown' = [shown EXCEPT !["workorder"] =
                                  Message(IF IsIn(WarningSign, advisory')
                                             THEN "error" ELSE "info", advisory')]
                  /\ bound' = bound \cup {"critical_assets", "sample", "prompt",
                                          "advisory"}
    /\ pc' = "done"
    /\ UNCHANGED <<seed, rng, eq_idx, in_type, id_counter, assets, assets_df,
                   styled_df, low_rul_df, styled_lifespan, loop_rows, loop_i,
                   low_rul, total, cost_arg, cost_ret>>

(***************************************************************************)
(* One run of the script                                                   *)
(***************************************************************************)
Blank ==
    /\ eq_idx = 1
    /\ in_type = 0
    /\ id_counter = 1
    /\ assets = <<>>
    /\ assets_df = NoValue
    /\ styled_df = NoValue
    /\ low_rul_df = NoValue
    /\ styled_lifespan = NoValue
    /\ sample = NoValue
    /\ prompt = NoValue
    /\ advisory = NoValue
    /\ loop_rows = NoValue
    /\ loop_i = 0
    /\ low_rul = NoValue
    /\ total = 0
    /\ critical_assets = NoValue
    /\ last_call = NoCall
    /\ called = {}
    /\ shown = [p \in Panels |-> <<>>]
    /\ cost_ret = 0

Init ==
    /\ seed \in Seeds
    /\ rng = 0
    /\ pc = "generate"
    /\ bound = {}
    /\ cost_arg = ""
    /\ Blank

Next ==
    \/ GenerateAppend
    \/ GenerateReturn
    \/ Tab0
    \/ Tab1
    \/ Tab2
    \/ Tab3Begin
    \/ Tab3Row
    \/ Tab4Begin
    \/ Tab4Row
    \/ Tab5
    \/ Tab6
    \/ Tab7
    \/ Tab8

Spec == Init /\ [][Next]_vars

(***************************************************************************)
(* get_equipment_cost called on its own                                    *)
(***************************************************************************)
GeneratedTypes == {equipment_types[i][1] : i \in 1..Len(equipment_types)}

\* The arguments tried: every Type generate_assets writes, and strings that
\* are no key of the catalog (another name, other spelling, other case, "").
TypeInputs == GeneratedTypes \cup {"Valve", "HeatExchanger", "pump", ""}

\* The random source may be at any point of any explored stream.
CostInit ==
    /\ seed \in Seeds
    /\ rng \in 0..(RawLevels - 1)
    /\ pc = "cost_call"
    /\ bound = {"get_equipment_cost"}
    /\ cost_arg \in TypeInputs
    /\ Blank

\* get_equipment_cost(cost_arg)
CostCall ==
    /\ pc = "cost_call"
    /\ cost_ret' = get_equipment_cost(cost_arg, seed, rng)
    /\ rng' = rng + DrawsPerCost
    /\ pc' = "cost_returned"
    /\ UNCHANGED <<seed, eq_idx, in_type, id_counter, assets, assets_df, styled_df,
                   low_rul_df, styled_lifespan, sample, prompt, advisory, loop_rows,
                   loop_i, low_rul, total, critical_assets, last_call, called, shown,
                   bound, cost_arg>>

CostNext == CostCall

CostSpec == CostInit /\ [][CostNext]_vars

(***************************************************************************)
(* genai_advisory called on its own                                        *)
(***************************************************************************)
LeadingRuns == {<<>>, <<" ">>, <<"\n", " ">>, <<"\t", "\r", "\n">>}
Cores == {<<>>, <<"o", "k">>, <<"a", " ", "\n", "b">>}
TrailingRuns == {<<>>, <<"\n">>, <<" ", "\t">>, <<"\f", " ", "\n">>}

\* Answers of the endpoint: text with every mix of surrounding whitespace
\* (also empty and all-whitespace text), exceptions, malformed responses.
AllResponses ==
    {Response("ok", a \o c \o b) : a \in LeadingRuns, c \in Cores, b \in TrailingRuns}
    \cup {Response("raise", m) : m \in {<<"t", "i", "m", "e", "o", "u", "t">>,
                                       <<"4", "0", "1", " ", "U", "n", "a", "u", "t", "h", "o", "r", "i", "z", "e", "d">>,
                                       <<>>}}
    \cup {Response("no_choices", <<>>), Response("none_content", <<>>)}

AdvisoryInit ==
    /\ seed = 0
    /\ rng = 0
    /\ pc = "advisory_call"
    /\ \E note \in Notes :
          /\ prompt = FieldReportPrompt(note)
          /\ sample = NoValue
          /\ bound = {"genai_advisory", "prompt"}
          /\ cost_arg = ""
          /\ eq_idx = 1
          /\ in_type = 0
          /\ id_counter = 1
          /\ assets = <<>>
          /\ assets_df = NoValue
          /\ styled_df = NoValue
          /\ low_rul_df = NoValue
          /\ styled_lifespan = NoValue
          /\ advisory = NoValue
          /\ loop_rows = NoValue
          /\ loop_i = 0
          /\ low_rul = NoValue
          /\ total = 0
          /\ critical_assets = NoValue
          /\ last_call = NoCall
          /\ called = {}
          /\ shown = [p \in Panels |-> <<>>]
          /\ cost_ret = 0

\* advisory = genai_advisory(prompt)
AdvisoryCall ==
    /\ pc = "advisory_call"
    /\ \E resp \in AllResponses :
          /\ last_call' = Call("direct", <<>>, prompt, resp)
          /\ advisory' = last_call'.result
    /\ called' = called \cup {"direct"}
    /\ bound' = bound \cup {"advisory"}
    /\ pc' = "advisory_returned"
    /\ UNCHANGED <<seed, rng, eq_idx, in_type, id_counter, assets, assets_df,
                   styled_df, low_rul_df, styled_lifespan, sample, prompt, loop_rows,
                   loop_i, low_rul, total, critical_assets, shown, cost_arg, cost_ret>>

AdvisoryNext == AdvisoryCall

AdvisorySpec == AdvisoryInit /\ [][AdvisoryNext]_vars

(***************************************************************************)
(* Properties                                                              *)
(***************************************************************************)
Generated == "assets_df" \in bound

DigitValue(c) == CHOOSE d \in 0..9 : DigitChar[d + 1] = c

\* The number an Asset ID of the form A + four digits carries.
IdNumber(id) ==
    1000 * DigitValue(id[2]) + 100 * DigitValue(id[3])
        + 10 * DigitValue(id[4]) + DigitValue(id[5])

WellFormedId(id) ==
    /\ Len(id) = 5
    /\ id[1] = "A"
    /\ \A k \in 2..5 : \E d \in 0..9 : DigitChar[d + 1] = id[k]

\* The type order and the per-type counts the register is to have.
DeclaredTypes == <<"Pump", "Compressor", "Turbine", "Heat Exchanger", "Tank",
                   "Vessel", "Pipeline", "Motor", "Control Panel", "Sensor">>
DeclaredCounts == <<30, 10, 5, 10, 10, 5, 15, 10, 5, 40>>

RECURSIVE CountsUpTo(_)
CountsUpTo(k) == IF k = 0 THEN 0 ELSE CountsUpTo(k - 1) + DeclaredCounts[k]

\* The type the i-th record is to have: the types come in blocks.
DeclaredTypeOf(i) ==
    DeclaredTypes[CHOOSE k \in 1..Len(DeclaredTypes) :
                      CountsUpTo(k - 1) < i /\ i <= CountsUpTo(k)]

\* A list of records numbered 1, 2, ... without gap, in the declared blocks.
NumberedInOrder(rows) ==
    \A i \in 1..Len(rows) :
        /\ WellFormedId(rows[i]["Asset ID"])
        /\ IdNumber(rows[i]["Asset ID"]) = i
        /\ rows[i]["Type"] = DeclaredTypeOf(i)

\* C1: generate_assets yields exactly 140 records whose Asset IDs are
\* A0001..A0140 in generation order (unique, increasing, no gap), the types in
\* the fixed order with the counts 30, 10, 5, 10, 10, 5, 15, 10, 5, 40, for
\* every stream of the random source: this is the register at the moment
\* generate_assets has returned, and while it runs the list built so far is a
\* prefix of it.
C1_RegisterShape ==
    /\ pc = "generate" => Len(assets) <= 140 /\ NumberedInOrder(assets)
    /\ pc = "tab0" =>
          /\ Len(assets_df) = 140
          /\ NumberedInOrder(assets_df)
          /\ \A i, j \in 1..Len(assets_df) :
                i # j => assets_df[i]["Asset ID"] # assets_df[j]["Asset ID"]
          /\ \A k \in 1..Len(DeclaredTypes) :
                Cardinality({i \in 1..Len(assets_df) :
                                assets_df[i]["Type"] = DeclaredTypes[k]})
                    = DeclaredCounts[k]

\* generate_assets has returned; the last record is the Sensor A0140.
C1_Witness ==
    /\ pc = "tab0"
    /\ Len(assets_df) = 140
    /\ assets_df[140]["Asset ID"] = <<"A", "0", "1", "4", "0">>
    /\ assets_df[140]["Type"] = "Sensor"
    /\ assets_df[31]["Type"] = "Compressor"

\* The class of an RUL value: critical up to 3, warning up to 6, safe above.
RiskClass(rul) == IF rul <= 3 THEN "critical"
                  ELSE IF rul <= 6 THEN "warning" ELSE "safe"

RegisterStyle(class) == CASE class = "critical" -> "background-color: red"
                          [] class = "warning"  -> "background-color: yellow"
                          [] class = "safe"     -> "background-color: lightgreen"

\* C2: every row of the Asset Register is coloured by its class (RUL <= 3 red,
\* 3 < RUL <= 6 yellow, RUL > 6 green), every RUL is in 1..36, and every row
\* the Lifespan panel displays gets from highlight_lifespan the colour
\* color_row gave the same asset.
C2_RiskClassification ==
    /\ "styled_df" \in bound =>
          \A i \in 1..Len(assets_df) :
              /\ assets_df[i]["RUL (months)"] \in 1..36
              /\ Len(styled_df[i]) = 11
              /\ \A k \in 1..Len(styled_df[i]) :
                    styled_df[i][k] =
                        RegisterStyle(RiskClass(assets_df[i]["RUL (months)"]))
    /\ "styled_lifespan" \in bound =>
          /\ Len(styled_lifespan) = Len(low_rul_df)
          /\ \A k \in 1..Len(low_rul_df) :
                /\ low_rul_df[k]["RUL (months)"] <= 6
                /\ \A i \in 1..Len(assets_df) :
                      assets_df[i]["Asset ID"] = low_rul_df[k]["Asset ID"]
                          => styled_lifespan[k] = styled_df[i]

\* Both panels have styled their rows; the register holds every RUL value of
\* 1..36, so every boundary (3, 4, 6, 7) is among the rows, and the Lifespan
\* panel shows rows of both classes.
C2_Witness ==
    /\ "styled_lifespan" \in bound
    /\ \A m \in 1..36 : \E i \in 1..Len(assets_df) : assets_df[i]["RUL (months)"] = m
    /\ \E k \in 1..Len(low_rul_df) : low_rul_df[k]["RUL (months)"] = 3
    /\ \E k \in 1..Len(low_rul_df) : low_rul_df[k]["RUL (months)"] = 4
    /\ \E k \in 1..Len(low_rul_df) : low_rul_df[k]["RUL (months)"] = 6

\* The declared cost range of each known type.
DeclaredRange ==
    ("Pump" :> <<5000, 15000>>) @@ ("Compressor" :> <<20000, 60000>>)
    @@ ("Turbine" :> <<40000, 120000>>) @@ ("Tank" :> <<15000, 40000>>)
    @@ ("Sensor" :> <<500, 3000>>) @@ ("Pipeline" :> <<10000, 30000>>)
    @@ ("Motor" :> <<8000, 20000>>) @@ ("Control Panel" :> <<5000, 15000>>)
    @@ ("Heat Exchanger" :> <<10000, 25000>>) @@ ("Vessel" :> <<12000, 35000>>)

InDeclaredRange(type, c) ==
    DeclaredRange[type][1] <= c /\ c <= DeclaredRange[type][2]

CatalogKeys == {catalog[k][1] : k \in 1..Len(catalog)}

\* C3: get_equipment_cost returns a cost inside the declared range of each of
\* the 10 known types and exactly 10000 for any other string; every type
\* generate_assets writes is a key of the catalog.
C3_CostCatalog ==
    pc = "cost_returned" =>
        /\ cost_arg \in DOMAIN DeclaredRange => InDeclaredRange(cost_arg, cost_ret)
        /\ cost_arg \notin DOMAIN DeclaredRange => cost_ret = 10000
        /\ cost_arg \in GeneratedTypes =>
              cost_arg \in CatalogKeys /\ cost_arg \in DOMAIN DeclaredRange

\* A string that is no catalog key ("HeatExchanger", without the space) has
\* been priced at the default.
C3_Witness ==
    /\ pc = "cost_returned"
    /\ cost_arg = "HeatExchanger"
    /\ cost_ret = 10000

AllWhitespace(t) == \A k \in 1..Len(t) : t[k] \in Whitespace

\* out is t without its leading and trailing whitespace.
IsStripped(t, out) ==
    /\ out # <<>> => out[1] \notin Whitespace /\ out[Len(out)] \notin Whitespace
    /\ \E i \in 0..Len(t) :
          /\ i + Len(out) <= Len(t)
          /\ SubSeq(t, i + 1, i + Len(out)) = out
          /\ AllWhitespace(SubSeq(t, 1, i))
          /\ AllWhitespace(SubSeq(t, i + Len(out) + 1, Len(t)))

\* The message of the failure behind a response that is no usable answer.
UnderlyingMessage(resp) ==
    CASE resp.kind = "raise"        -> resp.text
      [] resp.kind = "no_choices"   -> IndexErrorText
      [] resp.kind = "none_content" -> AttributeErrorText

\* C4: genai_advisory never lets an exception out.  When the request fails
\* (also on a malformed response) it returns a text that starts with the
\* warning sign and contains the message of the failure; when it succeeds it
\* returns the model output without leading and trailing whitespace.
C4_AdvisoryResult ==
    /\ pc # "crashed"
    /\ pc = "advisory_returned" =>
          /\ last_call.panel = "direct"
          /\ advisory = last_call.result
          /\ last_call.response.kind = "ok" =>
                IsStripped(last_call.response.text, advisory)
          /\ last_call.response.kind # "ok" =>
                /\ SubSeq(advisory, 1, Len(WarningSign)) = WarningSign
                /\ IsIn(UnderlyingMessage(last_call.response), advisory)
                /\ Len(advisory) > Len(UnderlyingMessage(last_call.response))

\* A response without choices came back as the warning text with the
\* IndexError message.
C4_Witness ==
    /\ pc = "advisory_returned"
    /\ last_call.response.kind = "no_choices"
    /\ SubSeq(advisory, 1, 2) = WarningSign
    /\ IsIn(IndexErrorText, advisory)

\* The Asset IDs a prompt embeds.
EmbeddedIds(p) ==
    {p[k].text : k \in {n \in 1..Len(p) : p[n].kind = "field" /\ p[n].column = "Asset ID"}}

\* C5: in the corrosion panel and in the failure-mode panel the prompt sent
\* for a row is built from that row: it embeds the Asset ID of the asset whose
\* summary heading is displayed.
C5_PromptOfTheRow ==
    last_call.panel \in {"corrosion", "failure"} =>
        EmbeddedIds(last_call.prompt) = {last_call.heading}

\* C6: once generate_assets has returned, no step changes assets_df: it keeps
\* its 140 rows, its 11 columns and every value, through every panel and
\* every advisory call, failed or not; the columns the cost-forecast panel
\* adds to low_rul are not written back.
C6_RegisterReadOnly ==
    [][Generated =>
          /\ assets_df' = assets_df
          /\ Len(assets_df') = 140
          /\ \A i \in 1..Len(assets_df') : DOMAIN assets_df'[i] = Columns]_vars

\* The run is over, the cost-forecast panel has added its two columns to
\* low_rul, and its advisory call failed.
C6_Witness ==
    /\ pc = "done"
    /\ "total" \in bound
    /\ \A k \in 1..Len(low_rul) :
          DOMAIN low_rul[k] = Columns \cup {"Replacement Cost ($)", "Replace By"}
    /\ SubSeq(shown["cost"][1].body, 1, 2) = WarningSign
    /\ DOMAIN assets_df[1] = Columns

\* The columns each scenario is to embed.
ListedFields(panel) ==
    CASE panel = "lifespan" ->
            {"Asset ID", "Type", "Age (years)", "Degradation %", "Vibration",
             "Temperature", "Corrosion Level", "RUL (months)"}
      [] panel = "compliance" ->
            {"Asset ID", "Age (years)", "Degradation %", "Location"}
      [] panel = "workorder" ->
            {"Asset ID", "Type", "Location", "Status", "RUL (months)", "Vibration",
             "Temperature", "Corrosion Level"}

FieldPositions(p, column) ==
    {k \in 1..Len(p) : p[k].kind = "field" /\ p[k].column = column}

\* C7: the prompt the lifespan, compliance and work-order panels send embeds
\* every field listed for the scenario exactly once and no other field, each
\* with the value the sampled record has in the register.
C7_PromptFields ==
    last_call.panel \in {"lifespan", "compliance", "workorder"} =>
        LET p == last_call.prompt IN
        /\ p = prompt
        /\ \A c \in ListedFields(last_call.panel) :
              Cardinality(FieldPositions(p, c)) = 1
        /\ \A k \in 1..Len(p) :
              p[k].kind = "field" =>
                  /\ p[k].column \in ListedFields(last_call.panel)
                  /\ \E i \in 1..Len(assets_df) :
                        /\ assets_df[i]["Asset ID"] = sample["Asset ID"]
                        /\ p[k].text = Str(assets_df[i], p[k].column)

\* The work-order prompt has been sent at the end of a full run (after the
\* lifespan and the compliance prompts).
C7_Witness ==
    /\ pc = "done"
    /\ last_call.panel = "workorder"
    /\ {"lifespan", "compliance"} \subseteq called
    /\ Len(last_call.prompt) = 17

NoLowRul == \A i \in 1..Len(assets_df) : assets_df[i]["RUL (months)"] > 6

\* The total of the cost-forecast panel is the sum of one in-range cost for
\* each asset with RUL <= 6 and for no other asset, and the prompt embeds it.
CostTotalOverLowRul ==
    "total" \in bound =>
        /\ LET due == SelectSeq(assets_df, LAMBDA r : r["RUL (months)"] <= 6)
           IN  [k \in 1..Len(low_rul) |-> low_rul[k]["Asset ID"]] =
                   [k \in 1..Len(due) |-> due[k]["Asset ID"]]
        /\ \A k \in 1..Len(low_rul) :
              /\ low_rul[k]["RUL (months)"] <= 6
              /\ InDeclaredRange(low_rul[k]["Type"], low_rul[k]["Replacement Cost ($)"])
        /\ total = SumCosts(low_rul, 1, Len(low_rul))
        /\ "cost" \in called
        /\ (last_call.panel = "cost" =>
               \E k \in 1..Len(last_call.prompt) :
                   last_call.prompt[k].column = "total"
                   /\ last_call.prompt[k].text = Digits(total))

\* C9: in the cost-forecast panel the total in the prompt is the sum of one
\* in-range cost per asset with RUL <= 6; when no asset has RUL <= 6 no
\* advisory call is made and the panel reports that no assets are nearing end
\* of life.
C9_CostForecast ==
    /\ CostTotalOverLowRul
    /\ (Generated /\ pc \in {"done", "crashed"} /\ NoLowRul) =>
          /\ "cost" \notin called
          /\ shown["cost"] = Message("info", <<"No assets nearing end of life.">>)

\* C10: one full pass runs every panel through the last one without an
\* unhandled exception, whatever register was generated and however each
\* advisory call ends; every name a panel reads is bound when it is read.
C10_PassCompletes == pc # "crashed"

====
